---- MODULE Spec2Model ----
(***************************************************************************)
(* Piazza API: the post lifecycle and engagement state machine.            *)
(*                                                                         *)
(* The repository holds four revisions of the post handlers, all mounted   *)
(* on the same routes:                                                     *)
(*   "toggle"     src/posts.js:197-568 (toggleReaction helper)             *)
(*   "inline"     src/src/routes/posts.js (= src/posts.js:1-195)           *)
(*   "guarded"    src/unnamed/part_002 (expiry and own-post checks)        *)
(*   "controller" src/unnamed/part_001 (numeric counters + identity lists) *)
(* impl selects the revision that is deployed; it never changes.           *)
(*                                                                         *)
(* Persistence is Mongoose: findById returns a private copy of the stored  *)
(* document, the handler mutates the copy, and save() sends only the       *)
(* modified paths: an array that was assigned is sent as $set of the whole *)
(* array guarded by the version key __v (a changed __v makes save() throw  *)
(* VersionError), an array that was only pushed to is sent as $push, a     *)
(* scalar as $set; any array change increments __v.                        *)
(*                                                                         *)
(* The identity lists are called likes/dislikes in the three route         *)
(* revisions and likedBy/dislikedBy in the controller revision and in      *)
(* src/models/Post.js; the model calls them likedBy/dislikedBy throughout  *)
(* and keeps likes/dislikes for the controller's numeric counters.         *)
(* Time is counted in minutes.                                             *)
(***************************************************************************)
EXTENDS Integers, Sequences, FiniteSets, Bags, TLC

VARIABLES impl, now, posts, inflight, res, okComments, streak, view, boot, mongo

vars == <<impl, now, posts, inflight, res, okComments, streak, view, boot, mongo>>

\* The variables of the post routes.
api == <<impl, now, posts, inflight, res, okComments, streak, view>>

\* ---------------------------------------------------------------- bounds
MaxUsers == 2
MaxAuthors == 1
MaxPosts == 1
MaxTime == 2
MaxCreateTime == 0
MaxComments == 2
MaxVersion == 3
MaxInFlight == 2
MaxListed == 3
MaxRanked == 2
MaxWrites == 2
MaxReactors == 4
MaxCrowd == 3
MaxCalls == 3

\* ------------------------------------------------------ program constants
DEFAULT_EXPIRY == 5
commentMaxLength == 500
MAX_RETRIES == 3

VALID_TOPICS == {"Politics", "Health", "Sport", "Tech"}

\* The topics posts are published under, and the topics reads ask for: two
\* valid topics, and for reads one that is not valid.
Topics == {"Tech", "Sport"}

TopicInputs == Topics \cup {"Cooking"}

Users == 1..MaxUsers

\* The users of the specification of reactions by several users.
Reactors == 1..MaxReactors

\* The users of the specification of overlapping reactions by several users.
Crowd == 1..MaxCrowd
PostIds == 1..MaxPosts
Impls == {"toggle", "inline", "guarded", "controller"}
Ops == {"like", "dislike", "comment"}

\* The users who publish posts.
Authors == 1..MaxAuthors

\* A comment text is modelled by its length after trim().
Texts == {0, 1, commentMaxLength + 1}

\* Only a comment request carries a text.
TextsOf(op) == IF op = "comment" THEN Texts ELSE {0}

\* The expiration a createPost request carries: absent, or a number of
\* minutes relative to the time of the request.
ExpirationInputs ==
    {[given |-> FALSE, mins |-> 0]} \cup [given : {TRUE}, mins : {-1, 0, 1}]

\* ------------------------------------------------------------- documents
BlankPost ==
    [author |-> 0, topic |-> {}, createdAt |-> 0, expirationTime |-> 0,
     status |-> "Live",
     likedBy |-> <<>>, dislikedBy |-> <<>>, likes |-> 0, dislikes |-> 0,
     comments |-> <<>>, v |-> 0]

\* What save() will send: the paths to $set (their values are the copy's), the
\* items to $push per array, and what happens to the version key: "none",
\* "inc" ($inc __v) or "all" ($inc __v, and __v must still be the copy's).
NoDelta ==
    [set |-> {},
     push |-> [likedBy |-> <<>>, dislikedBy |-> <<>>, comments |-> <<>>],
     version |-> "none"]

\* A request: its operation, authenticated user, post id and text, and, once
\* its handler has called save(), the copy and delta it sent and whether it
\* answered before the save resolved.
NoRequest ==
    [op |-> "none", user |-> 0, id |-> 0, text |-> 0,
     responded |-> FALSE, doc |-> BlankPost, delta |-> NoDelta]

NoRes ==
    [op |-> "none", user |-> 0, id |-> 0, code |-> 0, error |-> "none",
     likes |-> 0, dislikes |-> 0, total |-> 0]

NoStreak == [op |-> "none", id |-> 0, n |-> 0]

\* The process of src/server.js before startServer is called: where it
\* stands, the connection attempts made and failed, whether an attempt has
\* succeeded, whether app.listen has been called, whether a shutdown is
\* under way and whether the process has exited.
NoBoot ==
    [pc |-> "start", attempt |-> 0, failures |-> 0, succeeded |-> FALSE,
     listening |-> FALSE, shutting |-> FALSE, exited |-> FALSE]

\* The callers of connectToDatabase of src/config/database.js.
Callers == 1..MaxCalls

\* The module of src/config/database.js after it is loaded: db is null (0),
\* the client is not connected, no caller is in connectToDatabase. opened
\* counts the connections the client has opened since it was last closed,
\* made the Db instances client.db() has returned since then.
NoMongo ==
    [db |-> 0, client |-> "closed", opened |-> 0, made |-> 0,
     call |-> [c \in Callers |-> [pc |-> "idle", result |-> 0]]]

\* The response to a read: the route, the topic or id asked for, the status
\* code, the posts returned in order (each with the status it is returned
\* with) and the activity score returned.
NoView ==
    [kind |-> "none", topic |-> "none", id |-> 0, code |-> 0, items |-> <<>>,
     score |-> 0]

Filter(s, u) == SelectSeq(s, LAMBDA x : x # u)

Includes(s, u) == \E i \in 1..Len(s) : s[i] = u

Max(a, b) == IF a > b THEN a ELSE b

\* ------------------------------------------------------------ Post model
\* pre('save') hook: a save after the expiration time stores status Expired.
preSave(doc, t) ==
    IF t > doc.expirationTime THEN [doc EXCEPT !.status = "Expired"] ELSE doc

\* Model.findById: a copy of the stored document, or null.
findById(id) == IF id \in 1..Len(posts) THEN posts[id] ELSE BlankPost

\* applyDelta with the comments sent as the copy's whole array ($set) instead
\* of the pushed items ($push).
applyDeltaOverwrite(post, doc, d) ==
    [post EXCEPT
        !.likedBy = IF "likedBy" \in d.set THEN doc.likedBy
                    ELSE @ \o d.push.likedBy,
        !.dislikedBy = IF "dislikedBy" \in d.set THEN doc.dislikedBy
                       ELSE @ \o d.push.dislikedBy,
        !.comments = IF d.push.comments # <<>> THEN doc.comments ELSE @,
        !.likes = IF "likes" \in d.set THEN doc.likes ELSE @,
        !.dislikes = IF "dislikes" \in d.set THEN doc.dislikes ELSE @,
        !.status = IF "status" \in d.set THEN doc.status ELSE @,
        !.v = IF d.version = "none" THEN @ ELSE @ + 1]

\* applyDelta with the copy's status sent in every update, modified or not.
applyDeltaWithStatus(post, doc, d) ==
    [post EXCEPT
        !.likedBy = IF "likedBy" \in d.set THEN doc.likedBy
                    ELSE @ \o d.push.likedBy,
        !.dislikedBy = IF "dislikedBy" \in d.set THEN doc.dislikedBy
                       ELSE @ \o d.push.dislikedBy,
        !.comments = @ \o d.push.comments,
        !.likes = IF "likes" \in d.set THEN doc.likes ELSE @,
        !.dislikes = IF "dislikes" \in d.set THEN doc.dislikes ELSE @,
        !.status = doc.status,
        !.v = IF d.version = "none" THEN @ ELSE @ + 1]

\* The update save() sends for copy doc with delta d, applied to stored post.
applyDelta(post, doc, d) ==
    [post EXCEPT
        !.likedBy = IF "likedBy" \in d.set THEN doc.likedBy
                    ELSE @ \o d.push.likedBy,
        !.dislikedBy = IF "dislikedBy" \in d.set THEN doc.dislikedBy
                       ELSE @ \o d.push.dislikedBy,
        !.comments = @ \o d.push.comments,
        !.likes = IF "likes" \in d.set THEN doc.likes ELSE @,
        !.dislikes = IF "dislikes" \in d.set THEN doc.dislikes ELSE @,
        !.status = IF "status" \in d.set THEN doc.status ELSE @,
        !.v = IF d.version = "none" THEN @ ELSE @ + 1]

\* save() of a versioned array overwrite finds no document when __v moved on.
versionError(post, doc, d) == d.version = "all" /\ post.v # doc.v

\* --------------------------------------------------------------- outcomes
\* What a handler does once findById has resolved: answer at once ("respond"),
\* call save() and answer when it resolves ("save"), or answer at once and
\* leave an un-awaited save() behind ("respondSave").
Respond(code, error) ==
    [act |-> "respond", code |-> code, error |-> error,
     doc |-> BlankPost, delta |-> NoDelta]

\* A save() that sends the copy's status whether or not it was modified.
SaveWithStatus(orig, m, t) ==
    LET hooked == preSave(m.doc, t)
    IN [act |-> "save", code |-> 0, error |-> "none", doc |-> hooked,
        delta |-> [m.delta EXCEPT !.set = @ \cup {"status"}]]

\* await post.save(): the pre-save hook runs on the copy, then the delta is sent.
Save(orig, m, t) ==
    LET hooked == preSave(m.doc, t)
    IN [act |-> "save", code |-> 0, error |-> "none", doc |-> hooked,
        delta |-> [m.delta EXCEPT !.set =
                      IF hooked.status # orig.status THEN @ \cup {"status"} ELSE @]]

\* ------------------------------------------------- revision "toggle"
toggleReactionKeepOpposite(targetArray, oppositeArray, userId) ==
    LET alreadyReacted == Includes(targetArray, userId)
        updatedTarget == IF alreadyReacted THEN Filter(targetArray, userId)
                         ELSE Append(targetArray, userId)
    IN [target |-> updatedTarget, opposite |-> oppositeArray]

toggleReaction(targetArray, oppositeArray, userId) ==
    LET cleanedOpposite == Filter(oppositeArray, userId)
        alreadyReacted == Includes(targetArray, userId)
        updatedTarget == IF alreadyReacted THEN Filter(targetArray, userId)
                         ELSE Append(targetArray, userId)
    IN [target |-> updatedTarget, opposite |-> cleanedOpposite]

\* post.<target> = target; post.<opposite> = opposite: both arrays are
\* assigned; an assignment of an equal array leaves the path unmodified.
toggleAssign(doc, target, opposite, userId) ==
    LET t == toggleReaction(doc[target], doc[opposite], userId)
    IN [doc |-> [doc EXCEPT ![target] = t.target, ![opposite] = t.opposite],
        delta |-> [NoDelta EXCEPT
                      !.set = {target} \cup
                              (IF t.opposite # doc[opposite] THEN {opposite} ELSE {}),
                      !.version = "all"]]

toggleLike(found, doc, u, t) ==
    IF ~found THEN Respond(404, "NotFound")
    ELSE Save(doc, toggleAssign(doc, "likedBy", "dislikedBy", u), t)

toggleDislike(found, doc, u, t) ==
    IF ~found THEN Respond(404, "NotFound")
    ELSE Save(doc, toggleAssign(doc, "dislikedBy", "likedBy", u), t)

\* A comment whose save() sends the reaction lists of the copy as well.
pushCommentWithLists(doc, u, text) ==
    [doc |-> [doc EXCEPT !.comments = Append(@, [user |-> u, text |-> text])],
     delta |-> [NoDelta EXCEPT !.push.comments = <<[user |-> u, text |-> text]>>,
                               !.set = {"likedBy", "dislikedBy"},
                               !.version = "inc"]]

\* post.comments.push(comment)
pushComment(doc, u, text) ==
    [doc |-> [doc EXCEPT !.comments = Append(@, [user |-> u, text |-> text])],
     delta |-> [NoDelta EXCEPT !.push.comments = <<[user |-> u, text |-> text]>>,
                               !.version = "inc"]]

toggleComment(found, doc, u, text, t) ==
    IF ~found THEN Respond(404, "NotFound")
    ELSE Save(doc, pushComment(doc, u, text), t)

\* ------------------------------------------------- revision "inline"
\* inlineReact without the branch that removes a user who already reacted:
\* the user is pushed to the target array in every case.
inlineReactAlwaysPush(doc, target, opposite, userId) ==
    LET cleaned == Filter(doc[opposite], userId)
        modified == IF cleaned # doc[opposite] THEN {opposite} ELSE {}
    IN [doc |-> [doc EXCEPT ![opposite] = cleaned,
                            ![target] = Append(@, userId)],
        delta |-> [NoDelta EXCEPT
                      !.set = modified,
                      !.push[target] = <<userId>>,
                      !.version = IF modified = {} THEN "inc" ELSE "all"]]

\* The opposite array is filtered and assigned; the target array is filtered
\* and assigned when the user is in it, and pushed to otherwise.
inlineReact(doc, target, opposite, userId) ==
    LET cleaned == Filter(doc[opposite], userId)
        reacted == Includes(doc[target], userId)
        modified == (IF cleaned # doc[opposite] THEN {opposite} ELSE {})
                    \cup (IF reacted THEN {target} ELSE {})
    IN [doc |-> [doc EXCEPT ![opposite] = cleaned,
                            ![target] = IF reacted THEN Filter(@, userId)
                                        ELSE Append(@, userId)],
        delta |-> [NoDelta EXCEPT
                      !.set = modified,
                      !.push[target] = IF reacted THEN <<>> ELSE <<userId>>,
                      !.version = IF modified = {} THEN "inc" ELSE "all"]]

inlineLike(found, doc, u, t) ==
    IF ~found THEN Respond(404, "NotFound")
    ELSE Save(doc, inlineReact(doc, "likedBy", "dislikedBy", u), t)

inlineDislike(found, doc, u, t) ==
    IF ~found THEN Respond(404, "NotFound")
    ELSE Save(doc, inlineReact(doc, "dislikedBy", "likedBy", u), t)

inlineComment(found, doc, u, text, t) ==
    IF ~found THEN Respond(404, "NotFound")
    ELSE Save(doc, pushComment(doc, u, text), t)

\* ------------------------------------------------- revision "guarded"
guardedExpired(doc, t) == doc.status = "Expired" \/ t > doc.expirationTime

guardedLike(found, doc, u, t) ==
    IF ~found THEN Respond(404, "NotFound")
    ELSE IF guardedExpired(doc, t) THEN Respond(400, "PostExpired")
    ELSE IF doc.author = u THEN Respond(400, "SelfInteractionForbidden")
    ELSE Save(doc, inlineReact(doc, "likedBy", "dislikedBy", u), t)

guardedDislike(found, doc, u, t) ==
    IF ~found THEN Respond(404, "NotFound")
    ELSE IF guardedExpired(doc, t) THEN Respond(400, "PostExpired")
    ELSE Save(doc, inlineReact(doc, "dislikedBy", "likedBy", u), t)

guardedComment(found, doc, u, text, t) ==
    IF ~found THEN Respond(404, "NotFound")
    ELSE IF guardedExpired(doc, t) THEN Respond(400, "PostExpired")
    ELSE Save(doc, pushComment(doc, u, text), t)

\* ------------------------------------------------- revision "controller"
\* The stale-status branch: flips the copy's status and calls save() without
\* awaiting it.
expiresNow(post, t) == t > post.expirationTime /\ post.status = "Live"

checkPostExpiration(post, t) == expiresNow(post, t) \/ post.status = "Expired"

\* The stale-status branch with a save() that sends the reaction lists of
\* the copy along with its status.
RespondExpiredWithLists(post, t) ==
    IF expiresNow(post, t)
    THEN [act |-> "respondSave", code |-> 400, error |-> "PostExpired",
          doc |-> [post EXCEPT !.status = "Expired"],
          delta |-> [NoDelta EXCEPT !.set = {"status", "likedBy", "dislikedBy"}]]
    ELSE Respond(400, "PostExpired")

RespondExpired(post, t) ==
    IF expiresNow(post, t)
    THEN [act |-> "respondSave", code |-> 400, error |-> "PostExpired",
          doc |-> [post EXCEPT !.status = "Expired"],
          delta |-> [NoDelta EXCEPT !.set = {"status"}]]
    ELSE Respond(400, "PostExpired")

\* post.author.toString() === userId.toString(): modelled as the comparison
\* of the two identities.
checkPostOwnership(post, userId) == post.author = userId

\* controllerReact without the decrement of the other side's counter.
controllerReactKeepCount(doc, target, opposite, tcount, ocount, userId) ==
    LET had == Includes(doc[opposite], userId)
    IN [doc |-> [doc EXCEPT
                    ![opposite] = IF had THEN Filter(@, userId) ELSE @,
                    ![target] = Append(@, userId),
                    ![tcount] = @ + 1],
        delta |-> [NoDelta EXCEPT
                      !.set = {tcount} \cup (IF had THEN {opposite} ELSE {}),
                      !.push[target] = <<userId>>,
                      !.version = IF had THEN "all" ELSE "inc"]]

\* likedBy/likes or dislikedBy/dislikes: the identity list is pushed to and
\* the counter assigned; a reaction on the other side is filtered out first.
controllerReact(doc, target, opposite, tcount, ocount, userId) ==
    LET had == Includes(doc[opposite], userId)
    IN [doc |-> [doc EXCEPT
                    ![opposite] = IF had THEN Filter(@, userId) ELSE @,
                    ![ocount] = IF had THEN Max(0, @ - 1) ELSE @,
                    ![target] = Append(@, userId),
                    ![tcount] = @ + 1],
        delta |-> [NoDelta EXCEPT
                      !.set = {tcount} \cup (IF had THEN {opposite, ocount} ELSE {}),
                      !.push[target] = <<userId>>,
                      !.version = IF had THEN "all" ELSE "inc"]]

likePost(found, doc, u, t) ==
    IF ~found THEN Respond(404, "NotFound")
    ELSE IF checkPostExpiration(doc, t) THEN RespondExpired(doc, t)
    ELSE IF checkPostOwnership(doc, u) THEN Respond(400, "SelfInteractionForbidden")
    ELSE IF Includes(doc.likedBy, u) THEN Respond(400, "AlreadyReacted")
    ELSE Save(doc, controllerReact(doc, "likedBy", "dislikedBy", "likes", "dislikes", u), t)

dislikePost(found, doc, u, t) ==
    IF ~found THEN Respond(404, "NotFound")
    ELSE IF checkPostExpiration(doc, t) THEN RespondExpired(doc, t)
    ELSE IF checkPostOwnership(doc, u) THEN Respond(400, "SelfInteractionForbidden")
    ELSE IF Includes(doc.dislikedBy, u) THEN Respond(400, "AlreadyReacted")
    ELSE Save(doc, controllerReact(doc, "dislikedBy", "likedBy", "dislikes", "likes", u), t)

\* The pushed comment carries no username, which commentSchema requires:
\* save() rejects with a validation error and the catch block answers 500.
addComment(found, doc, u, text, t) ==
    IF ~found THEN Respond(404, "NotFound")
    ELSE IF checkPostExpiration(doc, t) THEN RespondExpired(doc, t)
    ELSE Respond(500, "ServerError")

\* ------------------------------------------------------------- dispatch
\* body('text').trim().notEmpty().isLength({ max: 500 }); the controller
\* tests only !text.
validText(text) ==
    IF impl = "controller" THEN text # 0
    ELSE text # 0 /\ text <= commentMaxLength

\* The handler mounted on POST /:id/like, /:id/dislike, /:id/comment.
Handle(op, found, doc, u, text, t) ==
    CASE impl = "toggle" ->
            (CASE op = "like" -> toggleLike(found, doc, u, t)
               [] op = "dislike" -> toggleDislike(found, doc, u, t)
               [] OTHER -> toggleComment(found, doc, u, text, t))
      [] impl = "inline" ->
            (CASE op = "like" -> inlineLike(found, doc, u, t)
               [] op = "dislike" -> inlineDislike(found, doc, u, t)
               [] OTHER -> inlineComment(found, doc, u, text, t))
      [] impl = "guarded" ->
            (CASE op = "like" -> guardedLike(found, doc, u, t)
               [] op = "dislike" -> guardedDislike(found, doc, u, t)
               [] OTHER -> guardedComment(found, doc, u, text, t))
      [] OTHER ->
            (CASE op = "like" -> likePost(found, doc, u, t)
               [] op = "dislike" -> dislikePost(found, doc, u, t)
               [] OTHER -> addComment(found, doc, u, text, t))

Init ==
    /\ impl \in Impls
    /\ now = 0
    /\ posts = <<>>
    /\ inflight = EmptyBag
    /\ res = NoRes
    /\ view = NoView
    /\ okComments = [i \in 1..MaxListed |-> 0]
    /\ streak = [u \in Users \cup Reactors \cup Crowd |-> NoStreak]
    /\ boot = NoBoot
    /\ mongo = NoMongo

\* ------------------------------------------------------------ responses
\* res.json(...) of a request s (its op, user and id) with the copy doc.
Response(s, code, error, doc) ==
    [op |-> s.op, user |-> s.user, id |-> s.id, code |-> code, error |-> error,
     likes |-> IF code # 200 THEN 0
               ELSE IF impl = "controller" THEN doc.likes ELSE Len(doc.likedBy),
     dislikes |-> IF code # 200 THEN 0
                  ELSE IF impl = "controller" THEN doc.dislikes ELSE Len(doc.dislikedBy),
     total |-> IF code = 201 /\ s.op = "comment" THEN Len(doc.comments) ELSE 0]

\* Success answers: 201 for a comment, 200 for a reaction.
okCode(op) == IF op = "comment" THEN 201 ELSE 200

target(op) == IF op = "like" THEN "likedBy" ELSE "dislikedBy"

\* History: the run of successful calls of one reaction by one user on one
\* post, counted from a call that found the user outside the list.
nextStreak(s, code) ==
    IF s.op \in {"like", "dislike"} /\ code = 200
    THEN IF streak[s.user] = [op |-> s.op, id |-> s.id, n |-> 1]
         THEN [op |-> s.op, id |-> s.id, n |-> 2]
         ELSE IF ~Includes(posts[s.id][target(s.op)], s.user)
              THEN [op |-> s.op, id |-> s.id, n |-> 1]
              ELSE NoStreak
    ELSE NoStreak

\* The answer to request s is sent. res is the answer sent by the step that
\* led to the current state, NoRes when that step sent none.
Answer(s, code, error, doc) ==
    /\ res' = Response(s, code, error, doc)
    /\ view' = NoView
    /\ streak' = [streak EXCEPT ![s.user] = nextStreak(s, code)]
    /\ okComments' = IF s.op = "comment" /\ code = 201
                     THEN [okComments EXCEPT ![s.id] = @ + 1]
                     ELSE okComments

\* A step that sends no answer.
Silent == res' = NoRes /\ view' = NoView /\ UNCHANGED <<okComments, streak>>

\* The bounds on what a request may be started for.
Startable(op, id) ==
    id \in 1..Len(posts) =>
        /\ posts[id].v < MaxVersion
        /\ op = "comment" => Len(posts[id].comments) < MaxComments

Request(op, u, id, text) ==
    [NoRequest EXCEPT !.op = op, !.user = u, !.id = id, !.text = text]

\* --------------------------------------------------------------- createPost
\* expiry = now + (expirationMins || DEFAULT_EXPIRY)
guardedExpiry(e, t) == t + (IF e.given /\ e.mins # 0 THEN e.mins ELSE DEFAULT_EXPIRY)

\* The controller requires an expiration time, and one in the future.
controllerRejects(e, t) == ~e.given \/ t + e.mins <= t

\* Post.create: the new document goes through the pre-save hook.
newPost(u, topic, expiry, t) ==
    preSave([BlankPost EXCEPT !.author = u, !.topic = {topic}, !.createdAt = t,
                              !.expirationTime = expiry], t)

\* POST / with a valid title, content and topic.
createPost(u, e, topic) ==
    /\ LET s == Request("create", u, Len(posts) + 1, 0)
       IN IF impl = "controller" /\ controllerRejects(e, now)
          THEN /\ res' = Response(s, 400, "ValidationError", BlankPost)
               /\ UNCHANGED posts
          ELSE /\ posts' = Append(posts,
                     newPost(u, topic,
                             CASE impl = "guarded" -> guardedExpiry(e, now)
                               [] impl = "controller" -> now + e.mins
                               [] OTHER -> now + DEFAULT_EXPIRY, now))
               /\ res' = Response(s, 201, "none", BlankPost)
    /\ view' = NoView
    /\ UNCHANGED <<boot, mongo, impl, now, inflight, okComments, streak>>

\* The posts the reaction specifications work on: MaxPosts posts, published
\* under one topic up to time MaxCreateTime.
createFirst(u, e) ==
    /\ Len(posts) < MaxPosts
    /\ now <= MaxCreateTime
    /\ createPost(u, e, "Tech")

\* ------------------------------------------------- concurrent handling
\* A request arrives: the validators run, findById is served and the handler
\* runs on its copy up to its answer or its save(). inflight holds the
\* requests whose save() the store has not served yet.
Begin(op, u, id, text) ==
    /\ BagCardinality(inflight) < MaxInFlight
    /\ Startable(op, id)
    /\ LET s == Request(op, u, id, text)
           out == Handle(op, id \in 1..Len(posts), findById(id), u, text, now)
       IN IF op = "comment" /\ ~validText(text)
          THEN /\ Answer(s, 400, "ValidationError", BlankPost)
               /\ UNCHANGED inflight
          ELSE IF out.act = "respond"
          THEN /\ Answer(s, out.code, out.error, BlankPost)
               /\ UNCHANGED inflight
          ELSE /\ inflight' = inflight (+) SetToBag({
                      [s EXCEPT !.doc = out.doc, !.delta = out.delta,
                                !.responded = (out.act = "respondSave")]})
               /\ IF out.act = "respondSave"
                  THEN Answer(s, out.code, out.error, out.doc)
                  ELSE Silent
    /\ UNCHANGED <<boot, mongo, impl, now, posts>>

\* The store serves the update of request s's save(), and its handler answers.
Commit(s) ==
    /\ BagIn(s, inflight)
    /\ LET failed == versionError(posts[s.id], s.doc, s.delta)
       IN /\ posts' = IF failed THEN posts
                      ELSE [posts EXCEPT ![s.id] = applyDelta(@, s.doc, s.delta)]
          /\ IF s.responded THEN Silent
             ELSE IF failed THEN Answer(s, 500, "ServerError", s.doc)
             ELSE Answer(s, okCode(s.op), "none", s.doc)
    /\ inflight' = inflight (-) SetToBag({s})
    /\ UNCHANGED <<boot, mongo, impl, now>>

\* --------------------------------------------------- sequential handling
\* A request handled from arrival to answer with no other request in between.
Serve(op, u, id, text) ==
    /\ inflight = EmptyBag
    /\ Startable(op, id)
    /\ LET s == Request(op, u, id, text)
           found == id \in 1..Len(posts)
           out == Handle(op, found, findById(id), u, text, now)
       IN IF op = "comment" /\ ~validText(text)
          THEN /\ Answer(s, 400, "ValidationError", BlankPost)
               /\ UNCHANGED posts
          ELSE IF out.act = "respond"
          THEN /\ Answer(s, out.code, out.error, BlankPost)
               /\ UNCHANGED posts
          ELSE /\ posts' = [posts EXCEPT ![id] = applyDelta(@, out.doc, out.delta)]
               /\ IF out.act = "respondSave"
                  THEN Answer(s, out.code, out.error, out.doc)
                  ELSE Answer(s, okCode(op), "none", out.doc)
    /\ UNCHANGED <<boot, mongo, impl, now, inflight>>

\* ------------------------------------------------------------------ sweep
\* Post.updateExpiredPosts / Post.updateMany: every stored post that is Live
\* and past its expiration time is set to Expired.
\* An updateMany whose filter leaves out the status and whose update counts
\* the runs.
updateManyUnfiltered(ps, t) ==
    [i \in 1..Len(ps) |->
        IF ps[i].expirationTime < t
        THEN [ps[i] EXCEPT !.status = "Expired", !.likes = @ + 1] ELSE ps[i]]

\* An updateMany that increments the version of the posts it updates.
updateManyVersioned(ps, t) ==
    [i \in 1..Len(ps) |->
        IF ps[i].expirationTime < t /\ ps[i].status = "Live"
        THEN [ps[i] EXCEPT !.status = "Expired", !.v = @ + 1] ELSE ps[i]]

updateManyDelete(ps, t) ==
    SelectSeq(ps, LAMBDA p : ~(p.expirationTime < t /\ p.status = "Live"))

updateMany(ps, t) ==
    [i \in 1..Len(ps) |->
        IF ps[i].expirationTime < t /\ ps[i].status = "Live"
        THEN [ps[i] EXCEPT !.status = "Expired"] ELSE ps[i]]

updateExpiredPosts ==
    /\ impl \in {"guarded", "controller"}
    /\ \E i \in 1..Len(posts) : posts[i].expirationTime < now /\ posts[i].status = "Live"
    /\ posts' = updateMany(posts, now)
    /\ Silent
    /\ UNCHANGED <<boot, mongo, impl, now, inflight>>

\* The clock advances.
Tick ==
    /\ now < MaxTime
    /\ now' = now + 1
    /\ Silent
    /\ UNCHANGED <<boot, mongo, impl, posts, inflight>>

Next ==
    \/ Tick
    \/ updateExpiredPosts
    \/ \E u \in Authors, e \in ExpirationInputs : createFirst(u, e)
    \/ \E op \in Ops, u \in Users, id \in 1..MaxPosts + 1 :
          \E text \in TextsOf(op) : Begin(op, u, id, text)
    \/ \E s \in BagToSet(inflight) : Commit(s)

Spec == Init /\ [][Next]_vars

\* No user has two requests in flight: every conflict between saves is a
\* conflict between different users.
BeginAlone(op, u, id, text) ==
    /\ \A s \in BagToSet(inflight) : s.user # u
    /\ Begin(op, u, id, text)

RaceNext ==
    \/ Tick
    \/ updateExpiredPosts
    \/ \E u \in Authors, e \in ExpirationInputs : createFirst(u, e)
    \/ \E op \in Ops, u \in Users, id \in 1..MaxPosts + 1 :
          \E text \in TextsOf(op) : BeginAlone(op, u, id, text)
    \/ \E s \in BagToSet(inflight) : Commit(s)

RaceSpec == Init /\ [][RaceNext]_vars

\* Requests served one at a time.
SeqNext ==
    \/ Tick
    \/ updateExpiredPosts
    \/ \E u \in Authors, e \in ExpirationInputs : createFirst(u, e)
    \/ \E op \in Ops, u \in Users, id \in 1..MaxPosts + 1 :
          \E text \in TextsOf(op) : Serve(op, u, id, text)

SeqSpec == Init /\ [][SeqNext]_vars

\* ------------------------------------------------------- authentication
\* What a request may carry in its Authorization header: nothing, a value
\* that does not start with 'Bearer ', a token jwt.verify rejects, a token of
\* a user that no longer exists, a token of an existing user.
Tokens == {"absent", "notBearer", "badSignature", "unknownUser", "valid"}

\* A middleware that calls next() whatever the header holds.
protectPassAll(token) ==
    [next |-> TRUE, code |-> 0, error |-> "none"]

\* protect: next() is called for a token of an existing user only; every
\* other request is answered 401 by the middleware ('No token provided',
\* 'Invalid token' or 'User not found').
protect(token) ==
    IF token \in {"absent", "notBearer"}
    THEN [next |-> FALSE, code |-> 401, error |-> "Unauthorized"]
    ELSE IF token = "badSignature"
    THEN [next |-> FALSE, code |-> 401, error |-> "Unauthorized"]
    ELSE IF token = "unknownUser"
    THEN [next |-> FALSE, code |-> 401, error |-> "Unauthorized"]
    ELSE [next |-> TRUE, code |-> 0, error |-> "none"]

\* The revisions whose router is in the source: each of their POST routes
\* names protect before its handler. The controller's router is not part of
\* the source; its requests are taken as authenticated.
Routed == {"toggle", "inline", "guarded"}

\* The answer of the middleware: no handler runs.
unauthorized(s, token) ==
    /\ res' = Response(s, protect(token).code, protect(token).error, BlankPost)
    /\ view' = NoView
    /\ UNCHANGED <<boot, mongo, impl, now, posts, inflight, okComments, streak>>

\* router.post('/', protect, ..., handler)
postCreate(token, u, e) ==
    /\ token # "valid" => impl \in Routed
    /\ IF protect(token).next THEN createFirst(u, e)
       ELSE /\ Len(posts) < MaxPosts
            /\ now <= MaxCreateTime
            /\ unauthorized(Request("create", u, Len(posts) + 1, 0), token)

\* router.post('/:id/like' | '/:id/dislike' | '/:id/comment', protect, ..., handler)
postOn(token, op, u, id, text) ==
    /\ token # "valid" => impl \in Routed
    /\ IF protect(token).next THEN Serve(op, u, id, text)
       ELSE /\ inflight = EmptyBag
            /\ unauthorized(Request(op, u, id, text), token)

AuthNext ==
    \/ Tick
    \/ updateExpiredPosts
    \/ \E token \in Tokens, u \in Authors, e \in ExpirationInputs : postCreate(token, u, e)
    \/ \E token \in Tokens, op \in Ops, u \in Users, id \in 1..MaxPosts + 1 :
          \E text \in TextsOf(op) : postOn(token, op, u, id, text)

AuthSpec == Init /\ [][AuthNext]_vars

\* ------------------------------------------- reactions by several users
\* Likes and dislikes by MaxReactors users, served one at a time.
TallyNext ==
    \/ Tick
    \/ updateExpiredPosts
    \/ \E u \in Authors, e \in ExpirationInputs : createFirst(u, e)
    \/ \E op \in {"like", "dislike"}, u \in Reactors, id \in 1..MaxPosts :
          Serve(op, u, id, 0)

TallySpec == Init /\ [][TallyNext]_vars

\* Likes and dislikes by MaxCrowd users whose handlers overlap.
CrowdNext ==
    \/ Tick
    \/ updateExpiredPosts
    \/ \E u \in Authors, e \in ExpirationInputs : createFirst(u, e)
    \/ \E op \in {"like", "dislike"}, u \in Crowd, id \in 1..MaxPosts :
          Begin(op, u, id, 0)
    \/ \E s \in BagToSet(inflight) : Commit(s)

CrowdSpec == Init /\ [][CrowdNext]_vars

\* ------------------------------------------------------------------ reads
\* Post.find(filter): the stored posts of a topic whose status is in statuses.
find(ps, topic, statuses) ==
    {i \in 1..Len(ps) : topic \in ps[i].topic /\ ps[i].status \in statuses}

\* The orders in which the store may return the posts S: find() without
\* sort() promises none.
Orders(S) ==
    {f \in [1..Cardinality(S) -> S] :
        \A j, k \in 1..Cardinality(S) : f[j] = f[k] => j = k}

\* .sort({ createdAt: -1 }): posts with equal keys come in any order.
byCreatedAt(ps, S) ==
    {f \in Orders(S) :
        \A j \in 1..Len(f) - 1 : ps[f[j]].createdAt >= ps[f[j + 1]].createdAt}

\* .sort({ expirationTime: -1 })
byExpirationTime(ps, S) ==
    {f \in Orders(S) :
        \A j \in 1..Len(f) - 1 :
            ps[f[j]].expirationTime >= ps[f[j + 1]].expirationTime}

\* The documents of a response, in the order f.
Items(ps, f) == [j \in 1..Len(f) |-> [id |-> f[j], status |-> ps[f[j]].status]]

\* activity with the comments counted in.
activityWithComments(p) ==
    IF impl = "controller" THEN p.likes + p.dislikes + Len(p.comments)
    ELSE Len(p.likedBy) + Len(p.dislikedBy) + Len(p.comments)

\* likes.length + dislikes.length in the route revisions, getTotalActivity()
\* (likes + dislikes) in the controller.
activity(p) ==
    IF impl = "controller" THEN p.likes + p.dislikes
    ELSE Len(p.likedBy) + Len(p.dislikedBy)

\* The loop that keeps the first post of the list with a score greater than
\* all before it: the first post with the greatest score.
mostActive(ps, f) ==
    CHOOSE j \in 1..Len(f) :
        /\ \A k \in 1..Len(f) : activity(ps[f[k]]) <= activity(ps[f[j]])
        /\ \A k \in 1..j - 1 : activity(ps[f[k]]) < activity(ps[f[j]])

\* A read answers; it is no request of the write history.
Reply(r) == view' = r /\ res' = NoRes /\ UNCHANGED <<okComments, streak>>

\* GET /:id. The controller runs checkPostExpiration on its copy: a stale
\* Live status is flipped, saved and returned as Expired.
getPostById(id) ==
    /\ IF id \notin 1..Len(posts)
       THEN /\ Reply([NoView EXCEPT !.kind = "get", !.id = id, !.code = 404])
            /\ UNCHANGED posts
       ELSE LET flip == impl = "controller" /\ expiresNow(posts[id], now)
                doc == IF flip THEN [posts[id] EXCEPT !.status = "Expired"]
                       ELSE posts[id]
            IN /\ posts' = [posts EXCEPT ![id] = doc]
               /\ Reply([NoView EXCEPT !.kind = "get", !.id = id, !.code = 200,
                            !.items = <<[id |-> id, status |-> doc.status]>>])
    /\ UNCHANGED <<boot, mongo, impl, now, inflight>>

\* GET /topic/:topic and GET /topic/:topic/active: the route revisions read
\* the posts stored as Live; the controller sweeps, then reads every post of
\* the topic.
liveStore == IF impl = "controller" THEN updateMany(posts, now) ELSE posts

liveFound(topic) ==
    find(liveStore, topic,
         IF impl = "controller" THEN {"Live", "Expired"} ELSE {"Live"})

getPostsByTopic(topic) ==
    /\ IF topic \notin VALID_TOPICS
       THEN /\ Reply([NoView EXCEPT !.kind = "browse", !.topic = topic, !.code = 400])
            /\ UNCHANGED posts
       ELSE /\ posts' = liveStore
            /\ \E f \in byCreatedAt(liveStore, liveFound(topic)) :
                  Reply([NoView EXCEPT !.kind = "browse", !.topic = topic,
                           !.code = 200, !.items = Items(liveStore, f)])
    /\ UNCHANGED <<boot, mongo, impl, now, inflight>>

\* The responses GET /topic/:topic/active can give to a topic it accepts: 404
\* when it finds no post, else the most active post of the list as returned
\* by the store, with its score.
activeReplies(ps, S, topic) ==
    IF S = {}
    THEN {[NoView EXCEPT !.kind = "active", !.topic = topic, !.code = 404]}
    ELSE {[NoView EXCEPT
             !.kind = "active", !.topic = topic, !.code = 200,
             !.items = <<[id |-> f[mostActive(ps, f)],
                          status |-> ps[f[mostActive(ps, f)]].status]>>,
             !.score = activity(ps[f[mostActive(ps, f)]])] : f \in Orders(S)}

\* GET /topic/:topic/active (not in src/posts.js:197-568). The inline revision
\* does not validate the topic.
getMostActivePost(topic) ==
    /\ impl # "toggle"
    /\ IF topic \notin VALID_TOPICS /\ impl # "inline"
       THEN /\ Reply([NoView EXCEPT !.kind = "active", !.topic = topic, !.code = 400])
            /\ UNCHANGED posts
       ELSE /\ posts' = liveStore
            /\ \E r \in activeReplies(liveStore, liveFound(topic), topic) : Reply(r)
    /\ UNCHANGED <<boot, mongo, impl, now, inflight>>

\* GET /topic/:topic/expired (not in src/posts.js:197-568). part_002 and the
\* controller sweep first and sort by expirationTime; the inline revision
\* does neither (it sorts by expiresAt, a path no post has) and does not
\* validate the topic.
expiredStore == IF impl = "inline" THEN posts ELSE updateMany(posts, now)

expiredFound(topic) == find(expiredStore, topic, {"Expired"})

getExpiredPosts(topic) ==
    /\ impl # "toggle"
    /\ IF topic \notin VALID_TOPICS /\ impl # "inline"
       THEN /\ Reply([NoView EXCEPT !.kind = "expired", !.topic = topic, !.code = 400])
            /\ UNCHANGED posts
       ELSE /\ posts' = expiredStore
            /\ \E f \in (IF impl = "inline" THEN Orders(expiredFound(topic))
                           ELSE byExpirationTime(expiredStore, expiredFound(topic))) :
                  Reply([NoView EXCEPT !.kind = "expired", !.topic = topic,
                           !.code = 200, !.items = Items(expiredStore, f)])
    /\ UNCHANGED <<boot, mongo, impl, now, inflight>>

\* Up to MaxListed posts, published at any time under any topic.
createListed(u, e, topic) ==
    /\ Len(posts) < MaxListed
    /\ createPost(u, e, topic)

\* Posts are published, expire, are swept and are read; no reactions.
ListNext ==
    \/ Tick
    \/ updateExpiredPosts
    \/ \E u \in Authors, e \in ExpirationInputs, topic \in Topics :
          createListed(u, e, topic)
    \/ \E id \in 1..MaxListed + 1 : getPostById(id)
    \/ \E topic \in TopicInputs : getPostsByTopic(topic)
    \/ \E topic \in TopicInputs : getExpiredPosts(topic)

ListSpec == Init /\ [][ListNext]_vars

\* Up to MaxRanked posts, published at any time under any topic.
createRanked(u, e, topic) ==
    /\ Len(posts) < MaxRanked
    /\ createPost(u, e, topic)

\* The number of array writes the stored posts have taken.
RECURSIVE writes(_)
writes(ps) == IF ps = <<>> THEN 0 ELSE ps[1].v + writes(Tail(ps))

\* At most MaxWrites reactions and comments are stored.
serveRanked(op, u, id, text) ==
    /\ writes(posts) < MaxWrites
    /\ Serve(op, u, id, text)

\* Posts are published, reacted to and commented on, one request at a time,
\* and ranked by activity.
ActiveNext ==
    \/ Tick
    \/ updateExpiredPosts
    \/ \E u \in Authors, e \in ExpirationInputs, topic \in Topics :
          createRanked(u, e, topic)
    \/ \E op \in Ops, u \in Users, id \in 1..MaxRanked :
          \E text \in TextsOf(op) : serveRanked(op, u, id, text)
    \/ \E topic \in TopicInputs : getMostActivePost(topic)

ActiveSpec == Init /\ [][ActiveNext]_vars

\* Every operation on stored posts: reactions and comments served one at a
\* time, the sweep, and the four reads.
FrameNext ==
    \/ Tick
    \/ updateExpiredPosts
    \/ \E u \in Authors, e \in ExpirationInputs : createFirst(u, e)
    \/ \E op \in Ops, u \in Users, id \in 1..MaxPosts + 1 :
          \E text \in TextsOf(op) : Serve(op, u, id, text)
    \/ \E id \in 1..MaxPosts + 1 : getPostById(id)
    \/ \E topic \in TopicInputs : getPostsByTopic(topic)
    \/ \E topic \in TopicInputs : getExpiredPosts(topic)
    \/ \E topic \in TopicInputs : getMostActivePost(topic)

FrameSpec == Init /\ [][FrameNext]_vars

\* ---------------------------------------------------------- server start
\* startServer calls connectToDatabase: the first iteration of its loop
\* calls mongoose.connect.
startServer ==
    /\ boot.pc = "start" /\ ~boot.exited
    /\ boot' = [boot EXCEPT !.pc = "connecting", !.attempt = 1]
    /\ UNCHANGED <<api, mongo>>

\* mongoose.connect resolves: connectToDatabase returns.
connectResolved ==
    /\ boot.pc = "connecting" /\ ~boot.exited
    /\ boot' = [boot EXCEPT !.pc = "connected", !.succeeded = TRUE]
    /\ UNCHANGED <<api, mongo>>

\* A catch block that lets the loop end after the last attempt, so that
\* connectToDatabase returns.
connectRejectedNoExit ==
    /\ boot.pc = "connecting" /\ ~boot.exited
    /\ boot' = [boot EXCEPT !.failures = @ + 1,
                            !.pc = IF boot.attempt = MAX_RETRIES THEN "connected"
                                   ELSE "waiting"]
    /\ UNCHANGED <<api, mongo>>

\* mongoose.connect rejects: the catch block exits the process after the
\* last attempt and waits RETRY_DELAY_MS otherwise.
connectRejected ==
    /\ boot.pc = "connecting" /\ ~boot.exited
    /\ boot' = IF boot.attempt = MAX_RETRIES
               THEN [boot EXCEPT !.failures = @ + 1, !.pc = "exited", !.exited = TRUE]
               ELSE [boot EXCEPT !.failures = @ + 1, !.pc = "waiting"]
    /\ UNCHANGED <<api, mongo>>

\* The retry timer fires: the next iteration calls mongoose.connect.
retryConnect ==
    /\ boot.pc = "waiting" /\ ~boot.exited
    /\ boot' = [boot EXCEPT !.pc = "connecting", !.attempt = @ + 1]
    /\ UNCHANGED <<api, mongo>>

\* startServer resumes after connectToDatabase and calls app.listen.
listen ==
    /\ boot.pc = "connected" /\ ~boot.exited
    /\ boot' = [boot EXCEPT !.pc = "serving", !.listening = TRUE]
    /\ UNCHANGED <<api, mongo>>

\* SIGTERM or SIGINT: gracefulShutdown starts closing the connection.
gracefulShutdown ==
    /\ ~boot.shutting /\ ~boot.exited
    /\ boot' = [boot EXCEPT !.shutting = TRUE]
    /\ UNCHANGED <<api, mongo>>

\* mongoose.connection.close() settles: process.exit.
shutdownExit ==
    /\ boot.shutting /\ ~boot.exited
    /\ boot' = [boot EXCEPT !.exited = TRUE]
    /\ UNCHANGED <<api, mongo>>

\* The process accepts requests once app.listen was called and until it exits.
accepting == boot.listening /\ ~boot.exited

\* The server starts, and serves requests one at a time while it listens.
BootNext ==
    \/ startServer
    \/ connectResolved
    \/ connectRejected
    \/ retryConnect
    \/ listen
    \/ gracefulShutdown
    \/ shutdownExit
    \/ accepting /\ \E u \in Authors, e \in ExpirationInputs : createFirst(u, e)
    \/ accepting /\ \E op \in Ops, u \in Users, id \in 1..MaxPosts + 1 :
                       \E text \in TextsOf(op) : Serve(op, u, id, text)

BootSpec == Init /\ [][BootNext]_vars

\* ---------------------------------------- src/config/database.js module
\* What client.connect() does to the client. On a connected client it does
\* nothing. While an earlier connect() is still pending, the driver either
\* shares that attempt or opens a further connection: the driver's version
\* is not fixed by the source, so both outcomes are kept.
clientConnect(m) ==
    IF m.client = "connected" THEN {m}
    ELSE IF m.client = "closed"
    THEN {[m EXCEPT !.client = "connecting", !.opened = @ + 1]}
    ELSE {m, [m EXCEPT !.opened = @ + 1]}

\* What client.db(config.dbName) returns: a new Db instance, or the instance
\* the client returned before (drivers that cache their Db instances).
clientDb(m) == IF m.made = 0 THEN {1} ELSE {m.made, m.made + 1}

\* A call of connectToDatabase: it returns db when db is set, and calls
\* client.connect() otherwise. A caller may call again once its earlier call
\* has settled.
connectToDatabase(c) ==
    /\ mongo.call[c].pc \in {"idle", "done", "failed"}
    /\ IF mongo.db # 0
       THEN mongo' = [mongo EXCEPT !.call[c] = [pc |-> "done", result |-> mongo.db]]
       ELSE \E m \in clientConnect(mongo) :
               mongo' = [m EXCEPT !.call[c] = [pc |-> "connecting", result |-> 0]]
    /\ UNCHANGED <<api, boot>>

\* await client.connect() resolves: the ping command is sent.
clientConnected(c) ==
    /\ mongo.call[c].pc = "connecting"
    /\ mongo.client # "closed"
    /\ mongo' = [mongo EXCEPT !.client = "connected", !.call[c].pc = "pinging"]
    /\ UNCHANGED <<api, boot>>

\* The ping resolves: db = client.db(config.dbName); return db.
pingResolved(c) ==
    /\ mongo.call[c].pc = "pinging"
    /\ \E inst \in clientDb(mongo) :
          mongo' = [mongo EXCEPT !.db = inst, !.made = Max(@, inst),
                                 !.call[c] = [pc |-> "done", result |-> inst]]
    /\ UNCHANGED <<api, boot>>

\* client.connect() or the ping rejects: the catch block throws.
connectThrows(c) ==
    /\ mongo.call[c].pc \in {"connecting", "pinging"}
    /\ mongo' = [mongo EXCEPT
                    !.call[c] = [pc |-> "failed", result |-> 0],
                    !.client = IF @ = "connecting" THEN "closed" ELSE @,
                    !.opened = IF mongo.client = "connecting" THEN 0 ELSE @]
    /\ UNCHANGED <<api, boot>>

\* closeDatabaseConnection: client.close(); db = null. The calls that had
\* settled belong to the connection that is closed.
closeDatabaseConnection ==
    /\ mongo.client # "closed"
    /\ mongo' = [mongo EXCEPT
                    !.db = 0, !.client = "closed", !.opened = 0, !.made = 0,
                    !.call = [c \in Callers |->
                                 IF mongo.call[c].pc \in {"done", "failed"}
                                 THEN [pc |-> "idle", result |-> 0]
                                 ELSE mongo.call[c]]]
    /\ UNCHANGED <<api, boot>>

MongoNext ==
    \/ \E c \in Callers : connectToDatabase(c)
    \/ \E c \in Callers : clientConnected(c)
    \/ \E c \in Callers : pingResolved(c)
    \/ \E c \in Callers : connectThrows(c)
    \/ closeDatabaseConnection

MongoSpec == Init /\ [][MongoNext]_vars

\* ================================================================ claims
Stored == 1..Len(posts)

Reactions == {"like", "dislike"}

Lists == {"likedBy", "dislikedBy"}

\* The answer sent by the last step was to a request on a stored post.
AnsweredOn(ops) == res.op \in ops /\ res.id \in Stored

\* The store served, in this step, the save() of reaction request s.
ReactionCommitted(s) ==
    /\ inflight' = inflight (-) SetToBag({s})
    /\ s.op \in Reactions
    /\ ~s.responded

\* C1: in every state, no user identifier is in both likedBy and dislikedBy
\* of a post.
C1_Disjoint ==
    \A i \in Stored : \A u \in Users :
        ~(Includes(posts[i].likedBy, u) /\ Includes(posts[i].dislikedBy, u))

\* C2: a valid like, dislike or comment request on a stored post at a time
\* now >= expirationTime is answered PostExpired.
C2_ExpiredRejected ==
    (/\ AnsweredOn(Ops)
     /\ res.error # "ValidationError"
     /\ now >= posts[res.id].expirationTime)
        => res.error = "PostExpired"

\* C3: when no user has two requests in flight, every reaction whose save()
\* the store serves is reflected in the stored post (the user's membership in
\* both lists is the one the handler computed) and erases no other user's
\* reaction.
C3_BothReflected ==
    [][\A s \in BagToSet(inflight) : ReactionCommitted(s) =>
          \A f \in Lists : \A u \in Users :
              Includes(posts'[s.id][f], u) =
                  IF u = s.user THEN Includes(s.doc[f], u)
                  ELSE Includes(posts[s.id][f], u)]_vars

\* C4: once the time has reached a post's expirationTime, its likedBy,
\* dislikedBy and comments never change.
C4_FrozenAfterExpiry ==
    [][\A i \in Stored : now >= posts[i].expirationTime =>
          /\ posts'[i].likedBy = posts[i].likedBy
          /\ posts'[i].dislikedBy = posts[i].dislikedBy
          /\ posts'[i].comments = posts[i].comments]_vars

\* C5: the author of a post is in neither likedBy nor dislikedBy of it.
C5_AuthorAbsent ==
    \A i \in Stored :
        /\ ~Includes(posts[i].likedBy, posts[i].author)
        /\ ~Includes(posts[i].dislikedBy, posts[i].author)

\* The revisions that check for the author: part_002 and part_001.
Checking == {"guarded", "controller"}

\* C6: in the revisions that check for the author, a like or dislike by the
\* author of a live post (now < expirationTime) is answered
\* SelfInteractionForbidden and leaves likedBy and dislikedBy of the post
\* unchanged.
C6_SelfRejected ==
    [][(/\ impl \in Checking
        /\ res'.op \in Reactions /\ res'.id \in Stored
        /\ res'.user = posts[res'.id].author
        /\ now < posts[res'.id].expirationTime)
          => /\ res'.error = "SelfInteractionForbidden"
             /\ posts'[res'.id].likedBy = posts[res'.id].likedBy
             /\ posts'[res'.id].dislikedBy = posts[res'.id].dislikedBy]_vars

\* C7: when no user has two requests in flight, after a successful like (dislike)
\* that found the user outside likedBy (dislikedBy) the user is in the list,
\* and after a second successful like (dislike) by that user on that post,
\* with no other request of that user in between, the user is outside it.
C7_ToggleTwice ==
    \A u \in Users :
        /\ streak[u].n = 1 => Includes(posts[streak[u].id][target(streak[u].op)], u)
        /\ streak[u].n = 2 => ~Includes(posts[streak[u].id][target(streak[u].op)], u)

\* A non-author's second consecutive successful like on a live post has been
\* served.
C7_Witness ==
    \E u \in Users :
        /\ streak[u] = [op |-> "like", id |-> 1, n |-> 2]
        /\ u # posts[1].author
        /\ now < posts[1].expirationTime
        /\ res.user = u /\ res.code = 200

C9_CheckOrder ==
    (impl \in Checking /\ res.op \in Reactions) =>
        IF res.id \notin Stored THEN res.error = "NotFound"
        ELSE IF now >= posts[res.id].expirationTime THEN res.error = "PostExpired"
        ELSE res.user = posts[res.id].author => res.error = "SelfInteractionForbidden"

\* C10: the number of comments of a post never decreases, and it equals the
\* number of comment requests on that post answered with success, also while
\* several comment requests on the post are in flight.
C10_CommentCount ==
    /\ [](\A i \in Stored : Len(posts[i].comments) = okComments[i])
    /\ [][\A i \in Stored : Len(posts'[i].comments) >= Len(posts[i].comments)]_vars

\* The second of two comment requests that overlapped has been answered: its
\* copy counted one comment and the post stores two.
C10_Witness ==
    /\ AnsweredOn({"comment"}) /\ res.code = 201
    /\ res.total = 1
    /\ Len(posts[res.id].comments) = 2
    /\ okComments[res.id] = 2

\* C11: under requests served one at a time, a comment request with a valid
\* text on a live post (now < expirationTime), by any user including the
\* author and a user who has commented before, is answered with success and
\* stores the earlier comments unchanged and in order, followed by one new
\* comment that carries the requesting user.
C11_Appends ==
    [][(/\ res'.op = "comment" /\ res'.id \in Stored
        /\ res'.error # "ValidationError"
        /\ now < posts[res'.id].expirationTime)
          => /\ res'.code = 201
             /\ \E text \in Texts :
                   posts'[res'.id].comments =
                       Append(posts[res'.id].comments,
                              [user |-> res'.user, text |-> text])]_vars

\* The ids a response lists.
Listed == {view.items[j].id : j \in 1..Len(view.items)}

\* The stored posts of a topic.
OfTopic(topic) == {i \in Stored : topic \in posts[i].topic}

\* now < expirationTime
LiveAt(i) == now < posts[i].expirationTime

\* C12: a browse-by-topic response at time now lists no post with
\* now >= expirationTime.
C12_BrowseNoExpired ==
    (view.kind = "browse" /\ view.code = 200) => \A i \in Listed : LiveAt(i)

\* C13: every post returned by GET /:id or by browse-by-topic at time now is
\* returned with status Expired exactly when now >= expirationTime.
C13_StatusOnRead ==
    (view.kind \in {"get", "browse"} /\ view.code = 200) =>
        \A j \in 1..Len(view.items) :
            (view.items[j].status = "Expired") <=> ~LiveAt(view.items[j].id)

\* C14: in every state and for every topic, each stored post of the topic is
\* in the result of exactly one of browse-by-topic and expired-by-topic asked
\* in that state, and a post with now >= expirationTime is in the expired
\* result and not in the browse result.
C14_Partition ==
    \A topic \in Topics : \A i \in OfTopic(topic) :
        /\ (i \in liveFound(topic)) # (i \in expiredFound(topic))
        /\ ~LiveAt(i) => (i \in expiredFound(topic) /\ i \notin liveFound(topic))

\* The greatest activity among the posts S.
topScore(S) ==
    CHOOSE m \in {activity(posts[i]) : i \in S} :
        \A i \in S : activity(posts[i]) <= m

\* C15: a most-active response for a topic returns a post of that topic with
\* now < expirationTime, whose |likedBy| + |dislikedBy| is the greatest among
\* the posts of the topic with now < expirationTime, and returns that number
\* as the score.
C15_MostActiveLive ==
    (view.kind = "active" /\ view.code = 200) =>
        LET i == view.items[1].id
            live == {k \in OfTopic(view.topic) : LiveAt(k)}
        IN /\ i \in live
           /\ \A k \in live :
                 Len(posts[k].likedBy) + Len(posts[k].dislikedBy)
                     <= Len(posts[i].likedBy) + Len(posts[i].dislikedBy)
           /\ view.score = Len(posts[i].likedBy) + Len(posts[i].dislikedBy)

\* C16: when several posts of the topic with now < expirationTime share the
\* greatest score, the most-active response returns one that no other of them
\* precedes in createdAt.
C16_EarliestOnTie ==
    (view.kind = "active" /\ view.code = 200) =>
        LET live == {k \in OfTopic(view.topic) : LiveAt(k)}
            top == {k \in live : activity(posts[k]) = topScore(live)}
        IN view.items[1].id \in top =>
              \A k \in top : posts[view.items[1].id].createdAt <= posts[k].createdAt

C18_NoPosts ==
    (view.kind = "active" /\ view.topic \in VALID_TOPICS) =>
        (view.code = 404 <=> \A k \in OfTopic(view.topic) : ~LiveAt(k))

\* C19: an expired-by-topic response at time now lists exactly the posts of
\* the topic with now >= expirationTime, in non-increasing order of
\* expirationTime.
C19_ExpiredExact ==
    (view.kind = "expired" /\ view.code = 200) =>
        /\ Listed = {i \in OfTopic(view.topic) : ~LiveAt(i)}
        /\ \A j \in 1..Len(view.items) - 1 :
              posts[view.items[j].id].expirationTime
                  >= posts[view.items[j + 1].id].expirationTime

\* C20: a browse-by-topic response at time now lists exactly the posts of the
\* topic with now < expirationTime, each once, in non-increasing order of
\* createdAt.
C20_BrowseExact ==
    (view.kind = "browse" /\ view.code = 200) =>
        /\ Listed = {i \in OfTopic(view.topic) : LiveAt(i)}
        /\ Cardinality(Listed) = Len(view.items)
        /\ \A j \in 1..Len(view.items) - 1 :
              posts[view.items[j].id].createdAt
                  >= posts[view.items[j + 1].id].createdAt

\* C21: a browse-by-topic, expired-by-topic or most-active read with a topic
\* outside VALID_TOPICS is answered InvalidTopic (400).
C21_InvalidTopic ==
    (view.kind \in {"browse", "expired", "active"} /\ view.topic \notin VALID_TOPICS)
        => view.code = 400

\* C22: a createPost answered with success has stored a post with status
\* Live, empty likedBy, dislikedBy and comments, counters 0, and the caller
\* as author.
C22_FreshPost ==
    (res.op = "create" /\ res.code = 201) =>
        /\ res.id = Len(posts)
        /\ posts[res.id].status = "Live"
        /\ posts[res.id].likedBy = <<>> /\ posts[res.id].dislikedBy = <<>>
        /\ posts[res.id].likes = 0 /\ posts[res.id].dislikes = 0
        /\ posts[res.id].comments = <<>>
        /\ posts[res.id].author = res.user

\* C23: a createPost that gives no expiration duration, or a positive one,
\* succeeds and stores a post with createdAt = now and expirationTime = now
\* plus the given duration, or plus DEFAULT_EXPIRY when none is given.
C23_Expiry ==
    [][\A u \in Authors, topic \in Topics, e \in ExpirationInputs :
          (createListed(u, e, topic) /\ (~e.given \/ e.mins > 0)) =>
              /\ res'.code = 201
              /\ Len(posts') = Len(posts) + 1
              /\ posts'[Len(posts')].createdAt = now
              /\ posts'[Len(posts')].expirationTime =
                     now + (IF e.given THEN e.mins ELSE DEFAULT_EXPIRY)]_vars

\* C24: a createPost that gives an expiration duration of zero or less is
\* answered ValidationError and stores no post.
C24_NonPositive ==
    [][\A u \in Authors, topic \in Topics, e \in ExpirationInputs :
          (createListed(u, e, topic) /\ e.given /\ e.mins <= 0) =>
              /\ res'.error = "ValidationError"
              /\ posts' = posts]_vars

\* C25: a status Expired that is stored is never replaced by Live, and a like
\* whose save() is served after a sweep (or any other write of the status
\* alone) that came between its read and its save is answered with success
\* and stored: the user's membership in likedBy is the one its handler
\* computed.
C25_SweepAndLike ==
    [][/\ \A i \in Stored :
             posts[i].status = "Expired" => posts'[i].status = "Expired"
       /\ \A s \in BagToSet(inflight) :
             (/\ ReactionCommitted(s) /\ s.op = "like"
              /\ posts[s.id].v = s.doc.v)
                => /\ res'.code = 200
                   /\ Includes(posts'[s.id].likedBy, s.user)
                         = Includes(s.doc.likedBy, s.user)]_vars

\* In a revision that rejects a like on a post stored as Expired, a like has
\* been answered with success and stored on a post that is stored as Expired:
\* the sweep ran between the like's read and its save.
C25_Witness ==
    /\ impl \in Checking
    /\ res.op = "like" /\ res.code = 200
    /\ posts[res.id].status = "Expired"
    /\ Includes(posts[res.id].likedBy, res.user)

\* C26: in every state, likedBy and dislikedBy of every post hold each user
\* at most once, also when requests of one user overlap.
C26_NoDuplicates ==
    \A i \in Stored : \A f \in Lists :
        \A j, k \in 1..Len(posts[i][f]) : posts[i][f][j] = posts[i][f][k] => j = k

\* C30: no save() of a like or dislike that the store serves leaves the
\* requesting user in both likedBy and dislikedBy of the post, also when a
\* like and a dislike of that user on the post overlap.
C30_LikeDislikeRace ==
    [][\A s \in BagToSet(inflight) : ReactionCommitted(s) =>
          ~(/\ Includes(posts'[s.id].likedBy, s.user)
            /\ Includes(posts'[s.id].dislikedBy, s.user))]_vars

\* C29: a create, like, dislike or comment request without a token of an
\* existing user is answered 401 and changes nothing the handlers write:
\* the stored posts, the pending saves and the request bookkeeping. (The
\* request of a step is the one its answer names.)
C29_Unauthorized ==
    [][\A token \in Tokens \ {"valid"} :
          (\/ /\ res'.op = "create"
              /\ \E e \in ExpirationInputs : postCreate(token, res'.user, e)
           \/ /\ res'.op \in Ops
              /\ \E text \in TextsOf(res'.op) :
                    postOn(token, res'.op, res'.user, res'.id, text))
             => /\ res'.code = 401
                /\ posts' = posts
                /\ inflight' = inflight
                /\ okComments' = okComments
                /\ streak' = streak]_vars

\* A like without a token was answered 401 on a live post it would have
\* been accepted for.
C29_Witness ==
    /\ res.code = 401 /\ res.op = "like" /\ res.id \in Stored
    /\ res.user \notin Authors
    /\ posts[res.id].status = "Live" /\ now < posts[res.id].expirationTime
    /\ posts[res.id].likedBy = <<>>

\* C27: with requests served one at a time, every successful like or dislike
\* of a non-author on a live post acts on the two lists as a toggle acts on
\* one optional reaction per user: the caller's reaction becomes none if it
\* was the requested one and the requested one otherwise, nobody else's
\* reaction changes, and the stored lists and the returned counts hold
\* exactly the users whose reaction is like, respectively dislike, once each.
C27_Tally ==
    [][LET i == res'.id
           u == res'.user
           r(ps, w) == IF Includes(ps[i].likedBy, w) THEN "like"
                       ELSE IF Includes(ps[i].dislikedBy, w) THEN "dislike"
                       ELSE "none"
           likers == {w \in Reactors : r(posts', w) = "like"}
           dislikers == {w \in Reactors : r(posts', w) = "dislike"}
       IN (/\ res'.op \in {"like", "dislike"} /\ res'.code = 200
           /\ u # posts[i].author /\ now < posts[i].expirationTime)
          => /\ r(posts', u) = IF r(posts, u) = res'.op THEN "none" ELSE res'.op
             /\ \A w \in Reactors \ {u} : r(posts', w) = r(posts, w)
             /\ Len(posts'[i].likedBy) = Cardinality(likers)
             /\ Len(posts'[i].dislikedBy) = Cardinality(dislikers)
             /\ res'.likes = Cardinality(likers)
             /\ res'.dislikes = Cardinality(dislikers)]_vars

\* Two non-authors have liked the live post and a third one has just
\* disliked it: the answer counts 2 likes and 1 dislike.
C27_Witness ==
    /\ res.op = "dislike" /\ res.code = 200 /\ res.likes = 2 /\ res.dislikes = 1
    /\ now < posts[res.id].expirationTime
    /\ Len(posts[res.id].likedBy) = 2
    /\ posts[res.id].dislikedBy = <<res.user>>
    /\ \A f \in Lists : ~Includes(posts[res.id][f], posts[res.id].author)

\* C28: no like, dislike, comment, read or sweep removes a stored post or
\* moves it to another id, and none changes its author, topic, creation time
\* or expiration time.
C28_Frame ==
    [][/\ Len(posts') >= Len(posts)
       /\ \A i \in Stored :
             /\ posts'[i].author = posts[i].author
             /\ posts'[i].topic = posts[i].topic
             /\ posts'[i].createdAt = posts[i].createdAt
             /\ posts'[i].expirationTime = posts[i].expirationTime]_vars

\* A post that was liked and commented on and then swept has been returned
\* by the history read.
C28_Witness ==
    /\ view.kind = "expired" /\ view.code = 200 /\ Len(view.items) = 1
    /\ posts[view.items[1].id].status = "Expired"
    /\ posts[view.items[1].id].likedBy # <<>>
    /\ posts[view.items[1].id].comments # <<>>

\* C31: in the controller revision, in every state, the counters of every
\* post are not negative and equal the number of users in likedBy,
\* respectively dislikedBy.
C31_Counters ==
    impl = "controller" =>
        \A i \in Stored :
            /\ posts[i].likes >= 0 /\ posts[i].dislikes >= 0
            /\ posts[i].likes = Cardinality({u \in Crowd : Includes(posts[i].likedBy, u)})
            /\ posts[i].dislikes =
                   Cardinality({u \in Crowd : Includes(posts[i].dislikedBy, u)})

\* C32: no step stores a status other than Expired for a post that is stored
\* as Expired, whatever requests are in flight.
C32_StatusOneWay ==
    [][\A i \in Stored : posts[i].status = "Expired" => posts'[i].status = "Expired"]_vars

\* The save() of a dislike whose handler read the post as Live was served
\* after the post had been stored as Expired.
C32_Witness ==
    /\ impl \in Checking /\ res.op = "dislike" /\ res.code = 200
    /\ posts[res.id].status = "Expired" /\ Includes(posts[res.id].dislikedBy, res.user)

\* C33: a step that answers a like, dislike or comment with 400 or 404, and
\* a step that serves the save() such a rejection left behind, changes no
\* post's likedBy, dislikedBy or comments, adds and removes no post, and
\* changes a status only from Live to Expired.
C33_RejectedNoWrite ==
    [][(\/ res'.op \in Ops /\ res'.code \in {400, 404}
        \/ \E s \in BagToSet(inflight) : s.responded /\ Commit(s))
          => /\ Len(posts') = Len(posts)
             /\ \A i \in Stored :
                   /\ posts'[i].likedBy = posts[i].likedBy
                   /\ posts'[i].dislikedBy = posts[i].dislikedBy
                   /\ posts'[i].comments = posts[i].comments
                   /\ \/ posts'[i].status = posts[i].status
                      \/ posts[i].status = "Live" /\ posts'[i].status = "Expired"]_vars

\* A request on a post that is past its expiration time and stored as Live
\* has been answered PostExpired, and the save() of the flipped status is
\* pending.
C33_Witness ==
    /\ res.op \in Ops /\ res.code = 400 /\ res.error = "PostExpired"
    /\ posts[res.id].status = "Live"
    /\ \E s \in BagToSet(inflight) : s.responded /\ s.id = res.id

\* C34: the step that answers a comment request with success leaves likedBy
\* and dislikedBy of its post as they were, and the step that answers a like
\* or dislike with success leaves the comments of its post as they were,
\* whatever other requests on the post are in flight.
C34_CommentReactionFrame ==
    [][/\ (res'.op = "comment" /\ res'.code = 201)
             => /\ posts'[res'.id].likedBy = posts[res'.id].likedBy
                /\ posts'[res'.id].dislikedBy = posts[res'.id].dislikedBy
       /\ (res'.op \in Reactions /\ res'.code = 200)
             => posts'[res'.id].comments = posts[res'.id].comments]_vars

\* A comment was stored while the save() of a like on the same post, whose
\* handler read the post before the comment was stored, is still pending.
C34_Witness ==
    /\ res.op = "comment" /\ res.code = 201
    /\ Len(posts[res.id].comments) = 1
    /\ \E s \in BagToSet(inflight) :
          /\ s.op = "like" /\ s.id = res.id /\ ~s.responded
          /\ s.doc.comments = <<>>

\* C35: a step that answers a like, dislike or comment changes no stored
\* post other than the one the request names, and a step that answers none
\* of them (the sweep, a read) changes nothing of a stored post but its
\* status.
C35_OtherPosts ==
    [][/\ res'.op \in Ops =>
             \A i \in Stored \ {res'.id} : posts'[i] = posts[i]
       /\ res'.op = "none" =>
             \A i \in Stored : [posts'[i] EXCEPT !.status = posts[i].status] = posts[i]]_vars

\* Of two stored posts, the first has a reaction and the second has just
\* been liked.
C35_Witness ==
    /\ Len(posts) = 2 /\ res.op = "like" /\ res.code = 200 /\ res.id = 2
    /\ posts[1].likedBy \o posts[1].dislikedBy # <<>>
    /\ Includes(posts[2].likedBy, res.user)

\* C36: a sweep changes the posts stored as Live and past their expiration
\* time, and of those the status only; a second sweep at the time of the
\* first would change nothing.
C36_SweepIdempotent ==
    [][updateExpiredPosts =>
          /\ updateMany(posts', now) = posts'
          /\ Len(posts') = Len(posts)
          /\ \A i \in Stored :
                IF posts[i].status = "Live" /\ posts[i].expirationTime < now
                THEN posts'[i] = [posts[i] EXCEPT !.status = "Expired"]
                ELSE posts'[i] = posts[i]]_vars

\* A sweep has flipped a post that was published with a later expiration
\* time, and has left another post Live.
C36_Witness ==
    /\ impl = "guarded" /\ res = NoRes /\ view = NoView
    /\ \E i, j \in Stored :
          /\ posts[i].status = "Expired" /\ posts[i].expirationTime > posts[i].createdAt
          /\ posts[i].expirationTime < now
          /\ posts[j].status = "Live"

\* C37: in the state a successful browse-by-topic leaves, no post whose
\* expiration time is at or before the time of the call is stored as Live.
C37_BrowseFlips ==
    (view.kind = "browse" /\ view.code = 200) =>
        \A i \in Stored : posts[i].expirationTime <= now => posts[i].status # "Live"

\* C38: in every state, at most MAX_RETRIES connection attempts have been
\* made; if app.listen has been called, an attempt has succeeded; and if
\* MAX_RETRIES attempts have failed, the process has exited and app.listen
\* was never called.
C38_Startup ==
    /\ boot.attempt <= MAX_RETRIES
    /\ boot.listening => boot.succeeded
    /\ boot.failures = MAX_RETRIES => (boot.exited /\ ~boot.listening)

\* The third attempt succeeded after two failures, the server listens and
\* has published a post.
C38_Witness ==
    /\ boot.failures = 2 /\ boot.attempt = MAX_RETRIES /\ boot.listening
    /\ res.op = "create" /\ res.code = 201

\* C39: in every state, the client has opened at most one connection since
\* it was last closed, and the calls of connectToDatabase that have resolved
\* since then have resolved to one and the same Db instance.
C39_ConnectOnce ==
    /\ mongo.opened <= 1
    /\ \A c, d \in Callers :
          (mongo.call[c].pc = "done" /\ mongo.call[d].pc = "done")
             => mongo.call[c].result = mongo.call[d].result
====
